---- MODULE Spec2Model ----
(***************************************************************************)
(* Model of the shop admin server: the data-access layer of                *)
(* server/storage.ts (MongoStorage) and the route layer of                 *)
(* server/routes.ts (registerRoutes), with the zod schemas of              *)
(* shared/schema.ts.                                                       *)
(*                                                                         *)
(* Every request handler and every data-access call is one action.  The   *)
(* shared database (the client opened in MongoStorage.initialize) is taken *)
(* to be reachable; the tenant databases are reached over a network whose  *)
(* outcome is chosen per call.  The optional shop fields description and   *)
(* imageUrl are left out: they are carried like name and location.         *)
(***************************************************************************)
EXTENDS Naturals, Integers, Sequences, FiniteSets, TLC

VARIABLES
    shops,      \* the shops collection of the shared database (set of ShopDoc)
    tenants,    \* tenant databases, by connection string: categories, products
    nextId,     \* the next ObjectId that new ObjectId() produces
    now,        \* the clock read by new Date()
    last,       \* the most recent request or data-access call, as observed
    users,      \* the users collection of the shared database (set of UserDoc)
    indexes,    \* the fields of users that carry a unique index
    initPc,     \* where MongoStorage.initialize stands
    pending     \* the calls and requests in flight (createUser calls, requests
                \* suspended at the shop lookup), by caller

\* The state of the user accounts and of the initialisation.
userVars == <<users, indexes, initPc, pending>>

vars == <<shops, tenants, nextId, now, last, users, indexes, initPc, pending>>

-----------------------------------------------------------------------------
(* Bounds *)

MaxIds == 2     \* number of ObjectIds generated in a behaviour
MaxTime == 1    \* last clock value

-----------------------------------------------------------------------------
(* Values *)

Undefined == "<undefined>"      \* JavaScript undefined / a key that is absent

\* Connection strings the driver accepts (they start with mongodb://).
TenantUris == {"mongodb://t1/db", "mongodb://t2/db"}

\* Connection strings a request may carry.
UriInputs == TenantUris \cup {"garbage", ""}

Statuses == {"active", "pending", "inactive"}

Slugs == {"shirts", "sarees"}

\* Outcome of the network for one connect-and-command exchange.
NetOutcomes == {"ok", "connect_fail", "cmd_fail"}

\* Identifier strings: the 24-hex rendering of an ObjectId, or anything else.
IdToString(oid) == [hex |-> TRUE, n |-> oid]

MalformedId == [hex |-> FALSE, n |-> 0]

IdStrings == {IdToString(i) : i \in 1..MaxIds} \cup {MalformedId}

NoId == [hex |-> FALSE, n |-> -1]

\* new ObjectId(id) throws on a string that is not a 24-hex identifier.
ObjectIdThrows(id) == ~id.hex

ObjectIdOf(id) == id.n

\* doc => ({ ...doc, _id: doc._id.toString() })
WithStringId(doc) == [doc EXCEPT !._id = IdToString(doc._id)]

\* obj.f in JavaScript: undefined when the key is absent.
Field(obj, f) == IF f \in DOMAIN obj THEN obj[f] ELSE Undefined

\* { $set: patch } applied to a document.
SetFields(doc, patch) ==
    [f \in (DOMAIN doc) \cup (DOMAIN patch) |->
        IF f \in DOMAIN patch THEN patch[f] ELSE doc[f]]

\* A call made by a handler, as recorded in last.log.
Call(name, uri, ok) == [call |-> name, uri |-> uri, ok |-> ok]

NoUri == "-"

-----------------------------------------------------------------------------
(* shared/schema.ts *)

ShopFields == {"name", "location", "mongoUri", "status"}

\* Request bodies for the shop routes; Undefined stands for a missing key.
ShopBodies ==
    [name : {"A", "", Undefined},
     location : {"X", Undefined},
     mongoUri : UriInputs \cup {Undefined},
     status : Statuses \cup {"bogus", Undefined}]


\* A shop schema that accepts any value.
ShopFieldValid_any(f, v) == TRUE

\* shopSchema field rules (min(1) strings, the status enum).
ShopFieldValid(f, v) ==
    IF f = "status" THEN v \in Statuses ELSE v # ""

\* insertShopSchema.parse(body): all of name, location, mongoUri required,
\* status defaults to "pending".
InsertShopValid(body) ==
    /\ \A f \in {"name", "location", "mongoUri"} :
          body[f] # Undefined /\ ShopFieldValid(f, body[f])
    /\ body.status # Undefined => ShopFieldValid("status", body.status)

InsertShopParse(body) ==
    [name |-> body.name, location |-> body.location, mongoUri |-> body.mongoUri,
     status |-> IF body.status = Undefined THEN "pending" ELSE body.status]

\* insertShopSchema.partial().parse(body): every key optional, a missing key
\* stays missing, a present key must satisfy its rule.
PartialShopValid(body) ==
    \A f \in ShopFields : body[f] # Undefined => ShopFieldValid(f, body[f])

PartialShopParse(body) ==
    [f \in {g \in ShopFields : body[g] # Undefined} |-> body[f]]

-----------------------------------------------------------------------------
(* server/storage.ts: shared database *)


\* sanitizeShop returning the record as it is stored.
sanitizeShop_keeps(shop) == shop

\* sanitizeShop: const { mongoUri, ...sanitizedShop } = shop
sanitizeShop(shop) == [f \in (DOMAIN shop) \ {"mongoUri"} |-> shop[f]]

sanitizeShops(list) == {sanitizeShop(s) : s \in list}

\* Results of data-access calls: ret is the set of returned values (empty for
\* undefined), threw tells whether the call raised.
getShops(coll) ==
    [threw |-> FALSE, ret |-> sanitizeShops({WithStringId(s) : s \in coll})]

getShopInternal(coll, id) ==
    IF ObjectIdThrows(id)
    THEN [threw |-> TRUE, ret |-> {}]
    ELSE [threw |-> FALSE,
          ret |-> {WithStringId(s) : s \in {d \in coll : d._id = ObjectIdOf(id)}}]

getShop(coll, id) ==
    LET r == getShopInternal(coll, id)
    IN  [threw |-> r.threw, ret |-> {sanitizeShop(s) : s \in r.ret}]

\* The document createShop inserts.
NewShopDoc(shopData, oid, t) ==
    [_id |-> oid, name |-> shopData.name, location |-> shopData.location,
     mongoUri |-> shopData.mongoUri, status |-> shopData.status,
     createdAt |-> t, updatedAt |-> t]


\* createShop answering without inserting.
createShop_drops(coll, shopData, oid, t) ==
    [threw |-> FALSE, coll |-> coll,
     ret |-> {sanitizeShop(WithStringId(NewShopDoc(shopData, oid, t)))}]

createShop(coll, shopData, oid, t) ==
    LET doc == NewShopDoc(shopData, oid, t)
    IN  [threw |-> FALSE, coll |-> coll \cup {doc},
         ret |-> {sanitizeShop(WithStringId(doc))}]

updateShop(coll, id, shopData, t) ==
    IF ObjectIdThrows(id)
    THEN [threw |-> TRUE, coll |-> coll, ret |-> {}]
    ELSE LET hit == {d \in coll : d._id = ObjectIdOf(id)}
             upd(d) == SetFields(SetFields(d, shopData), [updatedAt |-> t])
         IN  [threw |-> FALSE,
              coll |-> (coll \ hit) \cup {upd(d) : d \in hit},
              ret |-> {sanitizeShop(WithStringId(upd(d))) : d \in hit}]


\* deleteShop with an empty filter: deleteMany({}).
deleteShop_all(coll, id) ==
    IF ObjectIdThrows(id)
    THEN [threw |-> TRUE, coll |-> coll, ret |-> FALSE]
    ELSE [threw |-> FALSE, coll |-> {},
          ret |-> \E d \in coll : d._id = ObjectIdOf(id)]

deleteShop(coll, id) ==
    IF ObjectIdThrows(id)
    THEN [threw |-> TRUE, coll |-> coll, ret |-> FALSE]
    ELSE LET hit == {d \in coll : d._id = ObjectIdOf(id)}
         IN  [threw |-> FALSE, coll |-> coll \ hit, ret |-> hit # {}]

\* User accounts: the e-mail addresses and user names of requests (the
\* password is carried like username).
Emails == {"a@x", "b@x"}

Usernames == {"ann", "bob"}

UserData == [email : Emails, username : Usernames]

\* users.findOne({ _id: new ObjectId(id) })
getUser(coll, id) ==
    IF ObjectIdThrows(id)
    THEN [threw |-> TRUE, ret |-> {}]
    ELSE [threw |-> FALSE,
          ret |-> {WithStringId(u) : u \in {d \in coll : d._id = ObjectIdOf(id)}}]

\* users.findOne({ email }): the first match in storage order.
getUserByEmail(coll, email) ==
    LET hit == {d \in coll : d.email = email}
    IN  [threw |-> FALSE,
         ret |-> {WithStringId(u) : u \in {d \in hit : \A e \in hit : d._id <= e._id}}]

\* The document createUser inserts.
NewUserDoc(userData, oid, t) ==
    [_id |-> oid, email |-> userData.email, username |-> userData.username,
     createdAt |-> t]

\* insertOne raises a duplicate-key error when the document repeats a value
\* of a field that carries a unique index.
DuplicateKey(coll, idx, doc) == \E f \in idx : \E u \in coll : u[f] = doc[f]

\* createUser up to the end of users.insertOne(...): the collection after it,
\* and whether the insert raised.
createUserInsert(coll, idx, userData, oid, t) ==
    LET doc == NewUserDoc(userData, oid, t)
    IN  IF DuplicateKey(coll, idx, doc)
        THEN [threw |-> TRUE, coll |-> coll, id |-> oid]
        ELSE [threw |-> FALSE, coll |-> coll \cup {doc}, id |-> oid]

\* createUser from users.findOne({ _id: result.insertedId }) on:
\* if (!user) throw new Error("Failed to create user").
createUserFind(coll, oid) ==
    LET hit == {d \in coll : d._id = oid}
    IN  [threw |-> hit = {}, ret |-> {WithStringId(u) : u \in hit}]

\* createIndex(field, { unique: true }) fails when two documents of the
\* collection share a value of the field.
CreateIndexFails(coll, field) ==
    \E u, v \in coll : u # v /\ u[field] = v[field]

\* new MongoClient(uri) throws on a string that is no connection string.
ClientThrows(uri) == uri \notin TenantUris

\* The try block of testShopConnection, with the driver calls it makes:
\*   const client = new MongoClient(mongoUri);
\*   await client.connect(); await client.db().admin().ping();
\*   await client.close(); return true;
\* A call that raises ends the block.
ProbeTry(uri, net) ==
    IF ClientThrows(uri)
    THEN [threw |-> TRUE, log |-> << >>]
    ELSE IF net = "connect_fail"
    THEN [threw |-> TRUE, log |-> <<Call("connect", uri, FALSE)>>]
    ELSE IF net = "cmd_fail"
    THEN [threw |-> TRUE, log |-> <<Call("connect", uri, TRUE), Call("ping", uri, FALSE)>>]
    ELSE [threw |-> FALSE,
          log |-> <<Call("connect", uri, TRUE), Call("ping", uri, TRUE),
                    Call("close", uri, TRUE)>>]


\* testShopConnection without its catch clause.
ProbeCatch_rethrows(t) == [threw |-> t.threw, ret |-> ~t.threw, log |-> t.log]

\* catch (error) { return false; }
ProbeCatch(t) == [threw |-> FALSE, ret |-> ~t.threw, log |-> t.log]

\* testShopConnection as a call: whether it raised, what it returned, the
\* driver calls it made.
testShopConnectionCall(uri, net) == ProbeCatch(ProbeTry(uri, net))


\* testShopConnection reporting success whatever happened.
testShopConnection_true(uri, net) == TRUE

\* testShopConnection: true exactly when construct, connect and ping succeed.
testShopConnection(uri, net) == testShopConnectionCall(uri, net).ret

-----------------------------------------------------------------------------
(* server/storage.ts: tenant databases *)

CategoryFields == {"name", "slug"}

ProductFields == {"name", "category"}

\* Request bodies of the category and product routes (the required fields
\* description and price are carried like name).
CategoryBodies == [name : {"C", Undefined}, slug : Slugs \cup {"", Undefined}]

ProductBodies == [name : {"P", "Q", Undefined}, category : Slugs \cup {"", Undefined}]

\* insertCategorySchema / insertProductSchema and their partial() forms: every
\* modelled field is a min(1) string.
InsertValid(fields, body) == \A f \in fields : body[f] # Undefined /\ body[f] # ""

PartialValid(fields, body) == \A f \in fields : body[f] # ""

PartialParse(fields, body) == [f \in {g \in fields : body[g] # Undefined} |-> body[f]]

EmptyDb == [categories |-> {}, products |-> {}]

\* getShopDatabase: new MongoClient(uri), then connect().
getShopDatabase(uri, net) ==
    IF ClientThrows(uri) THEN "throws_new"
    ELSE IF net = "connect_fail" THEN "throws_connect"
    ELSE "connected"

\* Result of the body of a tenant operation (the try block): the database
\* after it, the returned documents, the truthiness of the result, the
\* number of ObjectIds generated, the driver commands issued.
OpResult(threw, db, ret, ok, ids, cmds) ==
    [threw |-> threw, db |-> db, ret |-> ret, ok |-> ok, ids |-> ids, cmds |-> cmds]

FindAll(db, coll) ==
    OpResult(FALSE, db, {WithStringId(d) : d \in db[coll]}, TRUE, 0, <<"find">>)

FindOne(db, coll, id) ==
    IF ObjectIdThrows(id) THEN OpResult(TRUE, db, {}, FALSE, 0, <<>>)
    ELSE LET hit == {d \in db[coll] : d._id = ObjectIdOf(id)}
         IN  OpResult(FALSE, db, {WithStringId(d) : d \in hit}, hit # {}, 0, <<"findOne">>)

InsertOne(db, coll, data, oid, t) ==
    LET doc == SetFields(data, [_id |-> oid, createdAt |-> t, updatedAt |-> t])
    IN  OpResult(FALSE, [db EXCEPT ![coll] = @ \cup {doc}], {WithStringId(doc)},
                 TRUE, 1, <<"insertOne", "findOne">>)

FindOneAndUpdate(db, coll, id, data, t) ==
    IF ObjectIdThrows(id) THEN OpResult(TRUE, db, {}, FALSE, 0, <<>>)
    ELSE LET hit == {d \in db[coll] : d._id = ObjectIdOf(id)}
             upd(d) == SetFields(SetFields(d, data), [updatedAt |-> t])
         IN  OpResult(FALSE, [db EXCEPT ![coll] = (@ \ hit) \cup {upd(d) : d \in hit}],
                      {WithStringId(upd(d)) : d \in hit}, hit # {}, 0,
                      <<"findOneAndUpdate">>)


\* deleteOne reporting a deleted document whatever it found.
DeleteOne_always(db, coll, id) ==
    IF ObjectIdThrows(id) THEN OpResult(TRUE, db, {}, FALSE, 0, <<>>)
    ELSE LET hit == {d \in db[coll] : d._id = ObjectIdOf(id)}
         IN  OpResult(FALSE, [db EXCEPT ![coll] = @ \ hit], {}, TRUE, 0,
                      <<"deleteOne">>)

DeleteOne(db, coll, id) ==
    IF ObjectIdThrows(id) THEN OpResult(TRUE, db, {}, FALSE, 0, <<>>)
    ELSE LET hit == {d \in db[coll] : d._id = ObjectIdOf(id)}
         IN  OpResult(FALSE, [db EXCEPT ![coll] = @ \ hit], {}, hit # {}, 0,
                      <<"deleteOne">>)


\* getShopProducts ignoring the slug.
ProductFilter_none(categorySlug) == << >>

\* const filter = categorySlug ? { category: categorySlug } : {}
ProductFilter(categorySlug) ==
    IF categorySlug # Undefined /\ categorySlug # ""
    THEN [category |-> categorySlug] ELSE << >>

Matches(doc, filter) == \A f \in DOMAIN filter : Field(doc, f) = filter[f]

FindProducts(db, categorySlug) ==
    LET filter == ProductFilter(categorySlug)
    IN  OpResult(FALSE, db,
                 {WithStringId(d) : d \in {p \in db.products : Matches(p, filter)}},
                 TRUE, 0, <<"find">>)


\* Every client working on one and the same database.
DbOf_shared(dbs, uri) == dbs["mongodb://t1/db"]

\* The database a connected client of uri works on.
DbOf(dbs, uri) == IF uri \in DOMAIN dbs THEN dbs[uri] ELSE EmptyDb

\* The shape shared by the ten tenant operations:
\*   const { client, db } = await this.getShopDatabase(uri);
\*   try { ... } finally { await client.close(); }
\* r is the result of the try block on the database of uri.  A failing
\* network command makes the first driver command of the block raise.
TenantCall(name, dbs, uri, net, r) ==
    LET c == getShopDatabase(uri, net)
    IN  IF c = "throws_new"
        THEN [threw |-> TRUE, dbs |-> dbs, ret |-> {}, ok |-> FALSE, ids |-> 0,
              log |-> <<Call(name, uri, FALSE)>>]
        ELSE IF c = "throws_connect"
        THEN [threw |-> TRUE, dbs |-> dbs, ret |-> {}, ok |-> FALSE, ids |-> 0,
              log |-> <<Call(name, uri, FALSE), Call("connect", uri, FALSE)>>]
        ELSE IF r.threw \/ net = "cmd_fail"
        THEN [threw |-> TRUE, dbs |-> dbs, ret |-> {}, ok |-> FALSE, ids |-> 0,
              log |-> <<Call(name, uri, FALSE), Call("connect", uri, TRUE),
                        Call("close", uri, TRUE)>>]
        ELSE [threw |-> FALSE, dbs |-> [dbs EXCEPT ![uri] = r.db],
              ret |-> r.ret, ok |-> r.ok, ids |-> r.ids,
              log |-> <<Call(name, uri, TRUE), Call("connect", uri, TRUE)>>
                      \o [i \in 1..Len(r.cmds) |-> Call(r.cmds[i], uri, TRUE)]
                      \o <<Call("close", uri, TRUE)>>]

getShopCategories(dbs, uri, net) ==
    TenantCall("getShopCategories", dbs, uri, net,
               FindAll(DbOf(dbs, uri), "categories"))

getShopCategory(dbs, uri, id, net) ==
    TenantCall("getShopCategory", dbs, uri, net,
               FindOne(DbOf(dbs, uri), "categories", id))

createShopCategory(dbs, uri, data, oid, t, net) ==
    TenantCall("createShopCategory", dbs, uri, net,
               InsertOne(DbOf(dbs, uri), "categories", data, oid, t))

updateShopCategory(dbs, uri, id, data, t, net) ==
    TenantCall("updateShopCategory", dbs, uri, net,
               FindOneAndUpdate(DbOf(dbs, uri), "categories", id, data, t))

deleteShopCategory(dbs, uri, id, net) ==
    TenantCall("deleteShopCategory", dbs, uri, net,
               DeleteOne(DbOf(dbs, uri), "categories", id))

getShopProducts(dbs, uri, categorySlug, net) ==
    TenantCall("getShopProducts", dbs, uri, net,
               FindProducts(DbOf(dbs, uri), categorySlug))

getShopProduct(dbs, uri, id, net) ==
    TenantCall("getShopProduct", dbs, uri, net,
               FindOne(DbOf(dbs, uri), "products", id))

createShopProduct(dbs, uri, data, oid, t, net) ==
    TenantCall("createShopProduct", dbs, uri, net,
               InsertOne(DbOf(dbs, uri), "products", data, oid, t))

updateShopProduct(dbs, uri, id, data, t, net) ==
    TenantCall("updateShopProduct", dbs, uri, net,
               FindOneAndUpdate(DbOf(dbs, uri), "products", id, data, t))

deleteShopProduct(dbs, uri, id, net) ==
    TenantCall("deleteShopProduct", dbs, uri, net,
               DeleteOne(DbOf(dbs, uri), "products", id))

-----------------------------------------------------------------------------
(* server/routes.ts *)

\* What is observed of one request or data-access call.
\*   op       the route or method
\*   auth     whether the request carried an authenticated session
\*   id       the shop identifier of the request (NoId when it has none)
\*   status   the HTTP status of the response (0 for a direct call)
\*   threw    whether the handler forwarded an error / the call raised
\*   body     the shop values of the response body
\*   returned the shop values the data-access layer returned
\*   docs     the category or product documents of the response or result
\*   flag     the boolean of the response or result (connected, deleted)
\*   stats    the counters of the statistics response
\*   slug     the category slug argument (Undefined when there is none)
\*   uri      the connection string the request or call carried
\*   net      the outcome the network had for it (for the statistics route,
\*            the outcome for each shop, by ObjectId)
\*   valid    whether the request body satisfies the schema of its route
\*   data     the data argument of a direct call (Undefined when there is
\*            none); for POST /api/shops, the status the body carried
\*   log      the calls made, in order
NoStats == [totalShops |-> 0, totalProducts |-> 0, activeConnections |-> 0]

Obs(op, auth, id, status, threw, body, returned, docs, flag, stats, log) ==
    [op |-> op, auth |-> auth, id |-> id, status |-> status, threw |-> threw,
     body |-> body, returned |-> returned, docs |-> docs, flag |-> flag,
     stats |-> stats, slug |-> Undefined, uri |-> Undefined, net |-> "ok",
     valid |-> TRUE, data |-> Undefined, log |-> log]

Idle == Obs("none", FALSE, NoId, 0, FALSE, {}, {}, {}, FALSE, NoStats, << >>)


\* requireAuth letting every request through.
requireAuth_open(auth) == TRUE

\* requireAuth: the handler is entered only if req.isAuthenticated().
requireAuth(auth) == auth


\* The route going on after a failed probe.
Rejected_never(isConnected) == FALSE

\* if (!isConnected) return res.status(400)...
Rejected(isConnected) == ~isConnected


\* The update route never probing.
CarriesUri_never(shopData) == FALSE

\* if (shopData.mongoUri): the patch carries a non-empty connection string.
CarriesUri(shopData) ==
    Field(shopData, "mongoUri") # Undefined /\ Field(shopData, "mongoUri") # ""

\* The observation obs of a request, with the inputs it came with.
Request(auth, uri, net, obs) == [obs EXCEPT !.auth = auth, !.uri = uri, !.net = net]

\* The 401 of requireAuth: the handler is not entered.
Unauthorized(op, id) ==
    Obs(op, FALSE, id, 401, FALSE, {}, {}, {}, FALSE, NoStats, << >>)

\* The status the error middleware answers next(error) with: a validation
\* error is a Bad-Request, anything else a server error.
ErrorStatus(err) == IF err = "ZodError" THEN 400 ELSE 500

\* A handler that ended in catch (error) { next(error) }.
Forwarded(op, id, err, returned, log) ==
    Obs(op, TRUE, id, ErrorStatus(err), TRUE, {}, returned, {}, FALSE, NoStats, log)

\* A handler that answered with status and (shop) body.
Answered(op, id, status, body, returned, log) ==
    Obs(op, TRUE, id, status, FALSE, body, returned, {}, FALSE, NoStats, log)

\* The outcome of a handler: its observation, the collections after it and
\* the number of ObjectIds it generated.
Outcome(obs, coll, dbs, ids) == [obs |-> obs, shops |-> coll, tenants |-> dbs, ids |-> ids]

\* The outcome out of a request whose body satisfies its schema or not.
Input(valid, out) == [out EXCEPT !.obs.valid = valid]

\* The outcome out of a POST /api/shops whose body carried body.status.
Posted(body, out) == [out EXCEPT !.obs.data = [status |-> body.status]]

\* A handler with outcome out has run for a request with the given inputs.
Handle(auth, uri, net, out) ==
    /\ out.ids > 0 => nextId <= MaxIds
    /\ last' = Request(auth, uri, net, out.obs)
    /\ shops' = out.shops
    /\ tenants' = out.tenants
    /\ nextId' = nextId + out.ids
    /\ UNCHANGED now
    /\ UNCHANGED userVars

\* app.get("/api/shops")
GetShopsRoute(auth) ==
    LET op == "GET /api/shops"
        r == getShops(shops)
    IN  Handle(auth, Undefined, "ok",
          IF ~requireAuth(auth)
          THEN Outcome(Unauthorized(op, NoId), shops, tenants, 0)
          ELSE Outcome(Answered(op, NoId, 200, r.ret, r.ret,
                                <<Call("getShops", NoUri, TRUE)>>),
                       shops, tenants, 0))


\* The parsed body handed to createShop as it is.
Activated_asis(shopData) == shopData

\* { ...shopData, status: "active" }
Activated(shopData) == [shopData EXCEPT !.status = "active"]

\* app.post("/api/shops")
PostShopsRoute(auth, body, net) ==
    LET op == "POST /api/shops"
        parsed == Call("parse", NoUri, InsertShopValid(body))
        shopData == InsertShopParse(body)
        isConnected == testShopConnection(shopData.mongoUri, net)
        probed == Call("testShopConnection", shopData.mongoUri, isConnected)
        r == createShop(shops, Activated(shopData), nextId, now)
    IN  Handle(auth, body.mongoUri, net, Posted(body, Input(InsertShopValid(body),
          IF ~requireAuth(auth)
          THEN Outcome(Unauthorized(op, NoId), shops, tenants, 0)
          ELSE IF ~InsertShopValid(body)
          THEN Outcome(Forwarded(op, NoId, "ZodError", {}, <<parsed>>),
                       shops, tenants, 0)
          ELSE IF Rejected(isConnected)
          THEN Outcome(Answered(op, NoId, 400, {}, {}, <<parsed, probed>>),
                       shops, tenants, 0)
          ELSE Outcome(Answered(op, NoId, 201, r.ret, r.ret,
                                <<parsed, probed, Call("createShop", NoUri, TRUE)>>),
                       r.coll, tenants, 1))))

\* app.put("/api/shops/:id")
PutShopRoute(auth, id, body, net) ==
    LET op == "PUT /api/shops/:id"
        parsed == Call("parse", NoUri, PartialShopValid(body))
        shopData == PartialShopParse(body)
        uri == Field(shopData, "mongoUri")
        isConnected == testShopConnection(uri, net)
        probed == IF CarriesUri(shopData)
                  THEN <<Call("testShopConnection", uri, isConnected)>>
                  ELSE << >>
        r == updateShop(shops, id, shopData, now)
        called == <<parsed>> \o probed \o <<Call("updateShop", NoUri, ~r.threw)>>
    IN  Handle(auth, body.mongoUri, net, Input(PartialShopValid(body),
          IF ~requireAuth(auth)
          THEN Outcome(Unauthorized(op, id), shops, tenants, 0)
          ELSE IF ~PartialShopValid(body)
          THEN Outcome(Forwarded(op, id, "ZodError", {}, <<parsed>>),
                       shops, tenants, 0)
          ELSE IF CarriesUri(shopData) /\ Rejected(isConnected)
          THEN Outcome(Answered(op, id, 400, {}, {}, <<parsed>> \o probed),
                       shops, tenants, 0)
          ELSE IF r.threw
          THEN Outcome(Forwarded(op, id, "BSONError", {}, called), r.coll, tenants, 0)
          ELSE IF r.ret = {}
          THEN Outcome(Answered(op, id, 404, {}, {}, called), r.coll, tenants, 0)
          ELSE Outcome(Answered(op, id, 200, r.ret, r.ret, called), r.coll, tenants, 0)))

\* app.delete("/api/shops/:id")
DeleteShopRoute(auth, id) ==
    LET op == "DELETE /api/shops/:id"
        r == deleteShop(shops, id)
        called == <<Call("deleteShop", NoUri, ~r.threw)>>
    IN  Handle(auth, Undefined, "ok",
          IF ~requireAuth(auth)
          THEN Outcome(Unauthorized(op, id), shops, tenants, 0)
          ELSE IF r.threw
          THEN Outcome(Forwarded(op, id, "BSONError", {}, called), r.coll, tenants, 0)
          ELSE IF ~r.ret
          THEN Outcome(Answered(op, id, 404, {}, {}, called), r.coll, tenants, 0)
          ELSE Outcome([Answered(op, id, 204, {}, {}, called) EXCEPT !.flag = TRUE],
                       r.coll, tenants, 0))

\* shop.mongoUri, for the shop found by storage.getShop.
MongoUriOf(found) == Field(CHOOSE s \in found : TRUE, "mongoUri")

\* shop.mongoUri, for the shop that storage.getShop(shopId) returned.
ShopMongoUri(coll, shopId) ==
    LET g == getShop(coll, shopId)
    IN  IF g.threw \/ g.ret = {} THEN Undefined
        ELSE MongoUriOf(g.ret)

\* requireAuth let the request in and storage.getShop(shopId) gave a shop.
Resolved(auth, g) == requireAuth(auth) /\ ~g.threw /\ g.ret # {}

\* A category or product route that ends at requireAuth or at the lookup of
\* its shop (g is what storage.getShop(shopId) gave).
NotResolved(op, auth, shopId, g) ==
    LET looked == <<Call("getShop", NoUri, ~g.threw)>>
    IN  IF ~requireAuth(auth)
        THEN Outcome(Unauthorized(op, shopId), shops, tenants, 0)
        ELSE IF g.threw
        THEN Outcome(Forwarded(op, shopId, "BSONError", {}, looked), shops, tenants, 0)
        ELSE Outcome(Answered(op, shopId, 404, {}, {}, looked), shops, tenants, 0)

\* A category or product route from the lookup of its shop on: found is the
\* shop that storage.getShop(shopId) gave, r the result of the tenant
\* operation applied to its mongoUri.
AfterLookup(op, shopId, found, parses, valid, okStatus, r) ==
    LET looked == <<Call("getShop", NoUri, TRUE)>>
        parsed == IF parses THEN <<Call("parse", NoUri, valid)>> ELSE << >>
        called == looked \o parsed \o r.log
    IN  IF parses /\ ~valid
        THEN Outcome(Forwarded(op, shopId, "ZodError", found, looked \o parsed),
                     shops, tenants, 0)
        ELSE IF r.threw
        THEN Outcome(Forwarded(op, shopId, "Error", found, called), shops, r.dbs, 0)
        ELSE IF ~r.ok
        THEN Outcome(Answered(op, shopId, 404, {}, found, called), shops, r.dbs, 0)
        ELSE Outcome([Answered(op, shopId, okStatus, {}, found, called)
                        EXCEPT !.docs = r.ret],
                     shops, r.dbs, r.ids)

\* The shape shared by the eight category and product routes:
\*   const shop = await storage.getShop(shopId);
\*   if (!shop) return res.status(404)...
\*   [const data = schema.parse(req.body);]
\*   const result = await storage.<operation>(shop.mongoUri, ...);
\*   [if (!result) return res.status(404)...]
\*   res.status(okStatus)...
\* parses tells whether the route validates a body, valid whether the body
\* passes, r is the result of the tenant operation applied to shop.mongoUri.
TenantRoute(op, auth, shopId, net, parses, valid, okStatus, r) ==
    LET g == getShop(shops, shopId)
    IN  Handle(auth, Undefined, net, Input(valid,
          IF ~Resolved(auth, g)
          THEN NotResolved(op, auth, shopId, g)
          ELSE AfterLookup(op, shopId, g.ret, parses, valid, okStatus, r)))

\* app.get("/api/shops/:shopId/categories")
GetCategoriesRoute(auth, shopId, net) ==
    LET r == getShopCategories(tenants, ShopMongoUri(shops, shopId), net)
    IN  TenantRoute("GET /api/shops/:shopId/categories", auth, shopId, net,
                    FALSE, TRUE, 200, r)

\* app.post("/api/shops/:shopId/categories")
PostCategoryRoute(auth, shopId, body, net) ==
    LET r == createShopCategory(tenants, ShopMongoUri(shops, shopId), body, nextId, now, net)
    IN  TenantRoute("POST /api/shops/:shopId/categories", auth, shopId, net,
                    TRUE, InsertValid(CategoryFields, body), 201, r)

\* app.put("/api/shops/:shopId/categories/:categoryId")
PutCategoryRoute(auth, shopId, categoryId, body, net) ==
    LET r == updateShopCategory(tenants, ShopMongoUri(shops, shopId), categoryId,
                                      PartialParse(CategoryFields, body), now, net)
    IN  TenantRoute("PUT /api/shops/:shopId/categories/:categoryId", auth, shopId, net,
                    TRUE, PartialValid(CategoryFields, body), 200, r)

\* app.delete("/api/shops/:shopId/categories/:categoryId")
DeleteCategoryRoute(auth, shopId, categoryId, net) ==
    LET r == deleteShopCategory(tenants, ShopMongoUri(shops, shopId), categoryId, net)
    IN  TenantRoute("DELETE /api/shops/:shopId/categories/:categoryId", auth, shopId,
                    net, FALSE, TRUE, 204, r)

\* app.get("/api/shops/:shopId/products")
GetProductsRoute(auth, shopId, category, net) ==
    LET r == getShopProducts(tenants, ShopMongoUri(shops, shopId), category, net)
    IN  TenantRoute("GET /api/shops/:shopId/products", auth, shopId, net,
                    FALSE, TRUE, 200, r)

\* app.post("/api/shops/:shopId/products")
PostProductRoute(auth, shopId, body, net) ==
    LET r == createShopProduct(tenants, ShopMongoUri(shops, shopId), body, nextId, now, net)
    IN  TenantRoute("POST /api/shops/:shopId/products", auth, shopId, net,
                    TRUE, InsertValid(ProductFields, body), 201, r)

\* app.put("/api/shops/:shopId/products/:productId")
PutProductRoute(auth, shopId, productId, body, net) ==
    LET r == updateShopProduct(tenants, ShopMongoUri(shops, shopId), productId,
                                     PartialParse(ProductFields, body), now, net)
    IN  TenantRoute("PUT /api/shops/:shopId/products/:productId", auth, shopId, net,
                    TRUE, PartialValid(ProductFields, body), 200, r)

\* app.delete("/api/shops/:shopId/products/:productId")
DeleteProductRoute(auth, shopId, productId, net) ==
    LET r == deleteShopProduct(tenants, ShopMongoUri(shops, shopId), productId, net)
    IN  TenantRoute("DELETE /api/shops/:shopId/products/:productId", auth, shopId,
                    net, FALSE, TRUE, 204, r)


\* The query of one shop in the statistics loop, without its catch clause.
ShopQuery_uncaught(r) ==
    [threw |-> r.threw, count |-> IF r.threw THEN 0 ELSE Cardinality(r.ret)]

\* try { const products = await storage.getShopProducts(shop.mongoUri);
\*       totalProducts += products.length; } catch (error) { console.error(...) }
\* r is the result of the getShopProducts call.
ShopQuery(r) ==
    [threw |-> FALSE, count |-> IF r.threw THEN 0 ELSE Cardinality(r.ret)]


\* The statistics loop going over every shop.
ActiveShops_all(list) == list

\* shops.filter(s => s.status === "active")
ActiveShops(list) == {s \in list : s.status = "active"}

\* The loop of the statistics route over the active shops, in storage order
\* (ObjectIds 1..i): the product total, the calls made, and whether an error
\* left the loop.
RECURSIVE StatsLoop(_, _, _)
StatsLoop(active, netOf, i) ==
    IF i = 0 THEN [threw |-> FALSE, total |-> 0, log |-> << >>]
    ELSE LET rest == StatsLoop(active, netOf, i - 1)
             here == {s \in active : s._id = IdToString(i)}
             shop == CHOOSE s \in here : TRUE
             r == getShopProducts(tenants, Field(shop, "mongoUri"), Undefined, netOf[i])
             q == ShopQuery(r)
         IN  IF here = {} \/ rest.threw THEN rest
             ELSE [threw |-> q.threw, total |-> rest.total + q.count,
                   log |-> rest.log \o r.log]

\* app.get("/api/stats")
StatsRoute(auth, netOf) ==
    LET op == "GET /api/stats"
        list == getShops(shops).ret
        active == ActiveShops(list)
        loop == StatsLoop(active, netOf, MaxIds)
    IN  Handle(auth, Undefined, netOf,
          IF ~requireAuth(auth)
          THEN Outcome(Unauthorized(op, NoId), shops, tenants, 0)
          ELSE IF loop.threw
          THEN Outcome(Forwarded(op, NoId, "Error", list,
                                 <<Call("getShops", NoUri, TRUE)>> \o loop.log),
                       shops, tenants, 0)
          ELSE Outcome([Answered(op, NoId, 200, {}, list,
                                 <<Call("getShops", NoUri, TRUE)>> \o loop.log)
                          EXCEPT !.stats = [totalShops |-> Cardinality(list),
                                            totalProducts |-> loop.total,
                                            activeConnections |-> Cardinality(active)]],
                       shops, tenants, 0))

\* app.post("/api/test-connection")
TestConnectionRoute(auth, mongoUri, net) ==
    LET op == "POST /api/test-connection"
        c == testShopConnectionCall(mongoUri, net)
        isConnected == testShopConnection(mongoUri, net)
    IN  Handle(auth, mongoUri, net,
          IF ~requireAuth(auth)
          THEN Outcome(Unauthorized(op, NoId), shops, tenants, 0)
          ELSE IF c.threw
          THEN Outcome(Forwarded(op, NoId, "Error", {},
                                 <<Call("testShopConnection", mongoUri, FALSE)>>),
                       shops, tenants, 0)
          ELSE Outcome([Answered(op, NoId, 200, {}, {},
                                 <<Call("testShopConnection", mongoUri, isConnected)>>)
                          EXCEPT !.flag = isConnected],
                       shops, tenants, 0))

-----------------------------------------------------------------------------
(* Direct calls of the data-access layer (IStorage) *)

\* The outcome of a direct tenant call with result r.
Direct(op, r) ==
    Outcome(Obs(op, FALSE, NoId, 0, r.threw, {}, {}, r.ret, r.ok, NoStats, r.log),
            shops, r.dbs, r.ids)

\* storage.getShopProducts(shopMongoUri, categorySlug)
CallGetShopProducts(uri, categorySlug, net) ==
    LET out == Direct("getShopProducts", getShopProducts(tenants, uri, categorySlug, net))
    IN  Handle(FALSE, uri, net, [out EXCEPT !.obs.slug = categorySlug])

\* storage.createShopProduct(shopMongoUri, product)
CallCreateShopProduct(uri, data, net) ==
    Handle(FALSE, uri, net,
           Direct("createShopProduct",
                  createShopProduct(tenants, uri, data, nextId, now, net)))

\* storage.createShopCategory(shopMongoUri, category)
CallCreateShopCategory(uri, data, net) ==
    Handle(FALSE, uri, net,
           Direct("createShopCategory",
                  createShopCategory(tenants, uri, data, nextId, now, net)))

\* The outcome of a direct tenant call with result r that took identifier id.
DirectById(op, id, r) == [Direct(op, r) EXCEPT !.obs.id = id]

\* storage.getShopCategories(shopMongoUri)
CallGetShopCategories(uri, net) ==
    Handle(FALSE, uri, net,
           Direct("getShopCategories", getShopCategories(tenants, uri, net)))

\* storage.getShopCategory(shopMongoUri, id)
CallGetShopCategory(uri, id, net) ==
    Handle(FALSE, uri, net,
           DirectById("getShopCategory", id, getShopCategory(tenants, uri, id, net)))

\* storage.updateShopCategory(shopMongoUri, id, category)
CallUpdateShopCategory(uri, id, data, net) ==
    Handle(FALSE, uri, net,
           DirectById("updateShopCategory", id,
                      updateShopCategory(tenants, uri, id, data, now, net)))

\* storage.deleteShopCategory(shopMongoUri, id)
CallDeleteShopCategory(uri, id, net) ==
    Handle(FALSE, uri, net,
           DirectById("deleteShopCategory", id,
                      deleteShopCategory(tenants, uri, id, net)))

\* storage.getShopProduct(shopMongoUri, id)
CallGetShopProduct(uri, id, net) ==
    Handle(FALSE, uri, net,
           DirectById("getShopProduct", id, getShopProduct(tenants, uri, id, net)))

\* storage.updateShopProduct(shopMongoUri, id, product)
CallUpdateShopProduct(uri, id, data, net) ==
    Handle(FALSE, uri, net,
           DirectById("updateShopProduct", id,
                      updateShopProduct(tenants, uri, id, data, now, net)))

\* storage.deleteShopProduct(shopMongoUri, id)
CallDeleteShopProduct(uri, id, net) ==
    Handle(FALSE, uri, net,
           DirectById("deleteShopProduct", id,
                      deleteShopProduct(tenants, uri, id, net)))

\* The outcome of a direct call on the shared database: r is its result,
\* returned the values and flag the boolean it gave back, coll the shops
\* collection after it.
Shared(op, id, r, returned, flag, coll) ==
    Outcome(Obs(op, FALSE, id, 0, r.threw, {}, returned, {}, flag, NoStats, << >>),
            coll, tenants, 0)

\* storage.getUser(id)
CallGetUser(id) ==
    LET r == getUser(users, id)
    IN  Handle(FALSE, Undefined, "ok", Shared("getUser", id, r, r.ret, r.ret # {}, shops))

\* storage.getShop(id)
CallGetShop(id) ==
    LET r == getShop(shops, id)
    IN  Handle(FALSE, Undefined, "ok", Shared("getShop", id, r, r.ret, r.ret # {}, shops))

\* storage.getShopInternal(id)
CallGetShopInternal(id) ==
    LET r == getShopInternal(shops, id)
    IN  Handle(FALSE, Undefined, "ok",
               Shared("getShopInternal", id, r, r.ret, r.ret # {}, shops))

\* storage.updateShop(id, shop)
CallUpdateShop(id, shopData) ==
    LET r == updateShop(shops, id, shopData, now)
    IN  Handle(FALSE, Undefined, "ok",
               [Shared("updateShop", id, r, r.ret, r.ret # {}, r.coll)
                  EXCEPT !.obs.data = shopData])

\* storage.deleteShop(id)
CallDeleteShop(id) ==
    LET r == deleteShop(shops, id)
    IN  Handle(FALSE, Undefined, "ok", Shared("deleteShop", id, r, {}, r.ret, r.coll))

\* storage.testShopConnection(mongoUri)
CallTestShopConnection(mongoUri, net) ==
    LET c == testShopConnectionCall(mongoUri, net)
    IN  Handle(FALSE, mongoUri, net,
               Outcome(Obs("testShopConnection", FALSE, NoId, 0, c.threw, {}, {}, {},
                           c.ret, NoStats, c.log),
                       shops, tenants, 0))

-----------------------------------------------------------------------------
(* The system *)

\* Time passes.
Tick ==
    /\ now < MaxTime
    /\ now' = now + 1
    /\ UNCHANGED <<shops, tenants, nextId, last>>
    /\ UNCHANGED userVars

\* The response is delivered (the call returns); the server awaits the next
\* request.
Respond ==
    /\ last # Idle
    /\ last' = Idle
    /\ UNCHANGED <<shops, tenants, nextId, now>>
    /\ UNCHANGED userVars

\* Requests are taken one at a time.
Ready == last = Idle

\* Identifiers of the documents the tenant databases hold from the start.
SeedId(k) == MaxIds + k

SeedProduct(k, name, category) ==
    [_id |-> SeedId(k), name |-> name, category |-> category,
     createdAt |-> 0, updatedAt |-> 0]

SeedCategory(k, slug) ==
    [_id |-> SeedId(k), name |-> "C", slug |-> slug, createdAt |-> 0, updatedAt |-> 0]

SeedProducts ==
    {SeedProduct(1, "P", "shirts"), SeedProduct(2, "Q", "sarees"),
     SeedProduct(3, "P", "sarees")}

\* The tenant databases exist before their shops are registered.
SeedTenants ==
    [u \in TenantUris |->
        IF u = "mongodb://t1/db"
        THEN [categories |-> {SeedCategory(1, "shirts")},
              products |-> {SeedProduct(1, "P", "shirts"), SeedProduct(2, "Q", "sarees")}]
        ELSE [categories |-> {}, products |-> {SeedProduct(3, "P", "sarees")}]]

\* A shop registered before the behaviour starts.
SeedShop ==
    NewShopDoc([name |-> "A", location |-> "X", mongoUri |-> "mongodb://t1/db",
                status |-> "active"], SeedId(1), 0)

\* Identifier strings of requests: generated ids, seeded ids, a malformed one.
DocIdStrings == IdStrings \cup {IdToString(SeedId(1))}

\* Callers of createUser that may be in flight together.
Callers == {1, 2}

NoPending == [stage |-> "idle", data |-> Undefined, id |-> 0]

\* The user accounts once initialize has finished on an empty users
\* collection: the unique index on email exists, no createUser is in flight.
UsersSettled ==
    /\ users = {}
    /\ indexes = {"email"}
    /\ initPc = "done"
    /\ pending = [c \in Callers |-> NoPending]

\* The HTTP surface is taken up once initialize has finished.
Init ==
    /\ shops = {}
    /\ tenants = SeedTenants
    /\ nextId = 1
    /\ now = 0
    /\ last = Idle
    /\ UsersSettled

\* Valid insert data of the typed direct calls.
CategoryData == {b \in CategoryBodies : InsertValid(CategoryFields, b)}

ProductData == {b \in ProductBodies : InsertValid(ProductFields, b)}

SlugInputs == Slugs \cup {"", Undefined}

\* Valid patches of the typed direct update calls.
CategoryPatches ==
    {PartialParse(CategoryFields, b) : b \in {c \in CategoryBodies :
                                                PartialValid(CategoryFields, c)}}

ProductPatches ==
    {PartialParse(ProductFields, b) : b \in {c \in ProductBodies :
                                               PartialValid(ProductFields, c)}}

ShopPatches ==
    {PartialShopParse(b) : b \in {c \in ShopBodies :
                                    PartialShopValid(c) /\ c.mongoUri = Undefined}}

\* The HTTP surface.
Next ==
    \/ Tick
    \/ Respond
    \/ Ready /\ \E auth \in BOOLEAN : GetShopsRoute(auth)
    \/ Ready /\ \E auth \in BOOLEAN, body \in ShopBodies, net \in NetOutcomes :
          PostShopsRoute(auth, body, net)
    \/ Ready /\ \E auth \in BOOLEAN, id \in IdStrings, body \in ShopBodies,
                   net \in NetOutcomes :
          PutShopRoute(auth, id, body, net)
    \/ Ready /\ \E auth \in BOOLEAN, id \in IdStrings : DeleteShopRoute(auth, id)
    \/ Ready /\ \E auth \in BOOLEAN, shopId \in IdStrings, net \in NetOutcomes :
          GetCategoriesRoute(auth, shopId, net)
    \/ Ready /\ \E auth \in BOOLEAN, shopId \in IdStrings, body \in CategoryBodies,
                   net \in NetOutcomes :
          PostCategoryRoute(auth, shopId, body, net)
    \/ Ready /\ \E auth \in BOOLEAN, shopId \in IdStrings, categoryId \in DocIdStrings,
                   body \in CategoryBodies, net \in NetOutcomes :
          PutCategoryRoute(auth, shopId, categoryId, body, net)
    \/ Ready /\ \E auth \in BOOLEAN, shopId \in IdStrings, categoryId \in DocIdStrings,
                   net \in NetOutcomes :
          DeleteCategoryRoute(auth, shopId, categoryId, net)
    \/ Ready /\ \E auth \in BOOLEAN, shopId \in IdStrings, category \in SlugInputs,
                   net \in NetOutcomes :
          GetProductsRoute(auth, shopId, category, net)
    \/ Ready /\ \E auth \in BOOLEAN, shopId \in IdStrings, body \in ProductBodies,
                   net \in NetOutcomes :
          PostProductRoute(auth, shopId, body, net)
    \/ Ready /\ \E auth \in BOOLEAN, shopId \in IdStrings, productId \in DocIdStrings,
                   body \in ProductBodies, net \in NetOutcomes :
          PutProductRoute(auth, shopId, productId, body, net)
    \/ Ready /\ \E auth \in BOOLEAN, shopId \in IdStrings, productId \in DocIdStrings,
                   net \in NetOutcomes :
          DeleteProductRoute(auth, shopId, productId, net)
    \/ Ready /\ \E auth \in BOOLEAN, netOf \in [1..MaxIds -> NetOutcomes] :
          StatsRoute(auth, netOf)
    \/ Ready /\ \E auth \in BOOLEAN, mongoUri \in UriInputs \cup {Undefined},
                   net \in NetOutcomes :
          TestConnectionRoute(auth, mongoUri, net)

Spec == Init /\ [][Next]_vars

\* The data-access layer called directly, over seeded tenant databases.
InitStorage ==
    /\ shops = {}
    /\ \E p \in SUBSET SeedProducts :
          tenants = [SeedTenants EXCEPT !["mongodb://t1/db"].products = p]
    /\ nextId = 1
    /\ now = 0
    /\ last = Idle
    /\ UsersSettled

NextStorage ==
    \/ Respond
    \/ Ready /\ \E uri \in UriInputs \cup {Undefined}, categorySlug \in SlugInputs,
                   net \in NetOutcomes :
          CallGetShopProducts(uri, categorySlug, net)
    \/ Ready /\ \E uri \in UriInputs \cup {Undefined}, data \in ProductData,
                   net \in NetOutcomes :
          CallCreateShopProduct(uri, data, net)
    \/ Ready /\ \E uri \in UriInputs \cup {Undefined}, data \in CategoryData,
                   net \in NetOutcomes :
          CallCreateShopCategory(uri, data, net)

SpecStorage == InitStorage /\ [][NextStorage]_vars

\* Connection strings of the direct calls below.
CallUris == TenantUris \cup {Undefined}

\* The methods of the data-access layer that read, update or delete, and the
\* probe, called directly over seeded databases; the probe and the deletion
\* of a shop also through their routes.  (The create methods are called in
\* SpecStorage.)
InitCalls ==
    /\ shops \in {{}, {SeedShop}}
    /\ tenants = SeedTenants
    /\ nextId = 1
    /\ now = 0
    /\ last = Idle
    /\ UsersSettled

NextCalls ==
    \/ Tick
    \/ Respond
    \/ Ready /\ \E uri \in CallUris, categorySlug \in SlugInputs, net \in NetOutcomes :
          CallGetShopProducts(uri, categorySlug, net)
    \/ Ready /\ \E uri \in CallUris, net \in NetOutcomes :
          CallGetShopCategories(uri, net)
    \/ Ready /\ \E uri \in CallUris, id \in DocIdStrings,
                   net \in NetOutcomes :
          CallGetShopCategory(uri, id, net)
    \/ Ready /\ \E uri \in CallUris, id \in DocIdStrings,
                   data \in CategoryPatches, net \in NetOutcomes :
          CallUpdateShopCategory(uri, id, data, net)
    \/ Ready /\ \E uri \in CallUris, id \in DocIdStrings,
                   net \in NetOutcomes :
          CallDeleteShopCategory(uri, id, net)
    \/ Ready /\ \E uri \in CallUris, id \in DocIdStrings,
                   net \in NetOutcomes :
          CallGetShopProduct(uri, id, net)
    \/ Ready /\ \E uri \in CallUris, id \in DocIdStrings,
                   data \in ProductPatches, net \in NetOutcomes :
          CallUpdateShopProduct(uri, id, data, net)
    \/ Ready /\ \E uri \in CallUris, id \in DocIdStrings,
                   net \in NetOutcomes :
          CallDeleteShopProduct(uri, id, net)
    \/ Ready /\ \E id \in DocIdStrings : CallGetUser(id)
    \/ Ready /\ \E id \in DocIdStrings : CallGetShop(id)
    \/ Ready /\ \E id \in DocIdStrings : CallGetShopInternal(id)
    \/ Ready /\ \E id \in DocIdStrings, shopData \in ShopPatches :
          CallUpdateShop(id, shopData)
    \/ Ready /\ \E id \in DocIdStrings : CallDeleteShop(id)
    \/ Ready /\ \E mongoUri \in UriInputs \cup {Undefined}, net \in NetOutcomes :
          CallTestShopConnection(mongoUri, net)
    \/ Ready /\ \E auth \in BOOLEAN, mongoUri \in UriInputs \cup {Undefined},
                   net \in NetOutcomes :
          TestConnectionRoute(auth, mongoUri, net)
    \/ Ready /\ \E auth \in BOOLEAN, id \in DocIdStrings : DeleteShopRoute(auth, id)

SpecCalls == InitCalls /\ [][NextCalls]_vars

\* MongoStorage.initialize: await this.client.connect()
InitializeConnect ==
    /\ initPc = "connect"
    /\ initPc' = "usersIndex"
    /\ UNCHANGED <<shops, tenants, nextId, now, last, users, indexes, pending>>

\* MongoStorage.initialize: await this.users.createIndex({ email: 1 },
\* { unique: true }); a failure is caught and logged, and initialize ends.
InitializeUsersIndex ==
    /\ initPc = "usersIndex"
    /\ IF CreateIndexFails(users, "email")
       THEN initPc' = "failed" /\ indexes' = indexes
       ELSE initPc' = "shopsIndex" /\ indexes' = indexes \cup {"email"}
    /\ UNCHANGED <<shops, tenants, nextId, now, last, users, pending>>

\* MongoStorage.initialize: await this.shops.createIndex({ name: 1 })
InitializeShopsIndex ==
    /\ initPc = "shopsIndex"
    /\ initPc' = "done"
    /\ UNCHANGED <<shops, tenants, nextId, now, last, users, indexes, pending>>

\* Caller c enters createUser and runs it to the end of insertOne; the shared
\* client is connected.
CreateUserInsert(c, userData) ==
    /\ initPc # "connect"
    /\ pending[c].stage = "idle"
    /\ nextId <= MaxIds
    /\ LET r == createUserInsert(users, indexes, userData, nextId, now)
       IN  /\ users' = r.coll
           /\ pending' = [pending EXCEPT ![c] =
                            [stage |-> IF r.threw THEN "failed" ELSE "inserted",
                             data |-> userData, id |-> r.id]]
    /\ nextId' = nextId + 1
    /\ UNCHANGED <<shops, tenants, now, last, indexes, initPc>>

\* Caller c's createUser goes on from findOne and returns, or raises what
\* insertOne raised.
CreateUserReturn(c) ==
    /\ pending[c].stage # "idle"
    /\ LET p == pending[c]
           f == createUserFind(users, p.id)
           failed == p.stage = "failed"
           threw == failed \/ f.threw
           log == <<Call("insertOne", NoUri, ~failed)>>
                  \o (IF failed THEN << >> ELSE <<Call("findOne", NoUri, ~f.threw)>>)
       IN  last' = [Obs("createUser", FALSE, NoId, 0, threw, {}, {},
                        IF threw THEN {} ELSE f.ret, ~threw, NoStats, log)
                      EXCEPT !.data = p.data]
    /\ pending' = [pending EXCEPT ![c] = NoPending]
    /\ UNCHANGED <<shops, tenants, nextId, now, users, indexes, initPc>>

\* storage.getUserByEmail(email)
CallGetUserByEmail(email) ==
    LET r == getUserByEmail(users, email)
    IN  Handle(FALSE, Undefined, "ok",
               Shared("getUserByEmail", NoId, r, r.ret, r.ret # {}, shops))

\* A user account registered before the behaviour starts.
SeedUser == NewUserDoc([email |-> "a@x", username |-> "ann"], SeedId(1), 0)

\* The state after construction: initialize has been started and not
\* awaited; the users collection and its index are what earlier runs left.
InitUsers ==
    /\ shops = {}
    /\ tenants = SeedTenants
    /\ nextId = 1
    /\ now = 0
    /\ last = Idle
    /\ users \in {{}, {SeedUser}}
    /\ indexes \in {{}, {"email"}}
    /\ initPc = "connect"
    /\ pending = [c \in Callers |-> NoPending]

NextUsers ==
    \/ InitializeConnect
    \/ InitializeUsersIndex
    \/ InitializeShopsIndex
    \/ \E c \in Callers, userData \in UserData : CreateUserInsert(c, userData)
    \/ \E c \in Callers : CreateUserReturn(c)
    \/ \E email \in Emails : CallGetUserByEmail(email)
    \/ \E id \in DocIdStrings : CallGetUser(id)

SpecUsers == InitUsers /\ [][NextUsers]_vars

\* The category and product routes that write, with requests that overlap:
\* a handler is suspended at await storage.getShop(shopId) and goes on when
\* it is scheduled again; other requests run in between.
WriteRouteOps ==
    {"POST /api/shops/:shopId/categories",
     "PUT /api/shops/:shopId/categories/:categoryId",
     "DELETE /api/shops/:shopId/categories/:categoryId",
     "POST /api/shops/:shopId/products",
     "PUT /api/shops/:shopId/products/:productId",
     "DELETE /api/shops/:shopId/products/:productId"}

CategoryWrites ==
    {"POST /api/shops/:shopId/categories",
     "PUT /api/shops/:shopId/categories/:categoryId",
     "DELETE /api/shops/:shopId/categories/:categoryId"}

CreateRoutes ==
    {"POST /api/shops/:shopId/categories", "POST /api/shops/:shopId/products"}

UpdateRoutes ==
    {"PUT /api/shops/:shopId/categories/:categoryId",
     "PUT /api/shops/:shopId/products/:productId"}

\* Shop and document identifiers of the overlapping requests: the seeded
\* one and one that nothing carries.
RaceIds == {IdToString(SeedId(1)), IdToString(1)}

\* Bodies of the overlapping requests.
RaceCategoryBodies == [name : {"C"}, slug : {"sarees", ""}]

RaceProductBodies == [name : {"P", "Q", Undefined}, category : {"sarees", Undefined, ""}]

\* The requests of the write routes: req.params and req.body.
WriteRequests ==
    {q \in [op : WriteRouteOps, shopId : RaceIds, docId : RaceIds \cup {NoId},
            body : RaceCategoryBodies \cup RaceProductBodies \cup {<< >>}] :
        /\ (q.docId = NoId) <=> (q.op \in CreateRoutes)
        /\ q.body \in (IF q.op \notin CreateRoutes \cup UpdateRoutes THEN {<< >>}
                       ELSE IF q.op \in CategoryWrites THEN RaceCategoryBodies
                       ELSE RaceProductBodies)}

WriteFields(q) == IF q.op \in CategoryWrites THEN CategoryFields ELSE ProductFields

\* The route of request q validates a body.
WriteParses(q) == q.op \in CreateRoutes \cup UpdateRoutes

\* insert<...>Schema.parse / .partial().parse of the body of request q.
WriteValid(q) ==
    IF q.op \in CreateRoutes THEN InsertValid(WriteFields(q), q.body)
    ELSE IF q.op \in UpdateRoutes THEN PartialValid(WriteFields(q), q.body)
    ELSE TRUE

\* The status of the route of request q when its operation succeeds.
WriteStatus(q) ==
    IF q.op \in CreateRoutes THEN 201 ELSE IF q.op \in UpdateRoutes THEN 200 ELSE 204

\* The tenant operation of request q, applied to connection string uri.
WriteResult(q, uri) ==
    CASE q.op = "POST /api/shops/:shopId/categories" ->
           createShopCategory(tenants, uri, q.body, nextId, now, "ok")
      [] q.op = "PUT /api/shops/:shopId/categories/:categoryId" ->
           updateShopCategory(tenants, uri, q.docId,
                              PartialParse(CategoryFields, q.body), now, "ok")
      [] q.op = "DELETE /api/shops/:shopId/categories/:categoryId" ->
           deleteShopCategory(tenants, uri, q.docId, "ok")
      [] q.op = "POST /api/shops/:shopId/products" ->
           createShopProduct(tenants, uri, q.body, nextId, now, "ok")
      [] q.op = "PUT /api/shops/:shopId/products/:productId" ->
           updateShopProduct(tenants, uri, q.docId,
                             PartialParse(ProductFields, q.body), now, "ok")
      [] q.op = "DELETE /api/shops/:shopId/products/:productId" ->
           deleteShopProduct(tenants, uri, q.docId, "ok")

\* Request q of caller c runs up to the end of await storage.getShop(shopId):
\* its handler ends there (401, 404, error), or it holds the shop it found.
LookupShop(c, auth, q) ==
    /\ pending[c].stage = "idle"
    /\ LET g == getShop(shops, q.shopId)
       IN  IF Resolved(auth, g)
           THEN /\ pending' = [pending EXCEPT ![c] =
                                 [stage |-> "resolved",
                                  data |-> [request |-> q, shop |-> g.ret],
                                  id |-> 0]]
                /\ UNCHANGED <<shops, tenants, nextId, now, last, users, indexes, initPc>>
           ELSE Handle(auth, Undefined, "ok",
                       Input(WriteValid(q), NotResolved(q.op, auth, q.shopId, g)))

\* The handler of caller c goes on after the lookup: it parses the body and
\* awaits the tenant operation with shop.mongoUri of the shop it holds.
ResumeWrite(c) ==
    /\ pending[c].stage = "resolved"
    /\ LET q == pending[c].data.request
           found == pending[c].data.shop
           out == Input(WriteValid(q),
                        AfterLookup(q.op, q.shopId, found, WriteParses(q), WriteValid(q),
                                    WriteStatus(q), WriteResult(q, MongoUriOf(found))))
       IN  /\ out.ids > 0 => nextId <= MaxIds
           /\ last' = Request(TRUE, Undefined, "ok", out.obs)
           /\ shops' = out.shops
           /\ tenants' = out.tenants
           /\ nextId' = nextId + out.ids
    /\ pending' = [pending EXCEPT ![c] = NoPending]
    /\ UNCHANGED <<now, users, indexes, initPc>>

\* One registered shop over the seeded tenant databases, which are reachable.
InitRace ==
    /\ shops = {SeedShop}
    /\ tenants = SeedTenants
    /\ nextId = 1
    /\ now = 0
    /\ last = Idle
    /\ UsersSettled

NextRace ==
    \/ Tick
    \/ Respond
    \/ Ready /\ \E c \in Callers, auth \in BOOLEAN, q \in WriteRequests :
          LookupShop(c, auth, q)
    \/ Ready /\ \E c \in Callers : ResumeWrite(c)
    \/ Ready /\ \E auth \in BOOLEAN, id \in RaceIds : DeleteShopRoute(auth, id)

SpecRace == InitRace /\ [][NextRace]_vars

-----------------------------------------------------------------------------
(* Properties *)

TenantRouteOps ==
    {"GET /api/shops/:shopId/categories", "POST /api/shops/:shopId/categories",
     "PUT /api/shops/:shopId/categories/:categoryId",
     "DELETE /api/shops/:shopId/categories/:categoryId",
     "GET /api/shops/:shopId/products", "POST /api/shops/:shopId/products",
     "PUT /api/shops/:shopId/products/:productId",
     "DELETE /api/shops/:shopId/products/:productId"}

ShopRouteOps ==
    {"GET /api/shops", "POST /api/shops", "PUT /api/shops/:id", "DELETE /api/shops/:id"}

RouteOps == ShopRouteOps \cup TenantRouteOps \cup {"GET /api/stats", "POST /api/test-connection"}

TenantCalls ==
    {"getShopCategories", "getShopCategory", "createShopCategory", "updateShopCategory",
     "deleteShopCategory", "getShopProducts", "getShopProduct", "createShopProduct",
     "updateShopProduct", "deleteShopProduct"}

\* The identifiers of the stored shops, as strings.
ShopIds(coll) == {IdToString(s._id) : s \in coll}

\* The request o came with a body that passed its schema.
BodyPassed(o) == \A i \in DOMAIN o.log : o.log[i].call = "parse" => o.log[i].ok

\* A probe of the connection string of request o cannot succeed.
ProbeFails(o) == o.uri \notin TenantUris \/ o.net # "ok"

\* Request o made call c.
Made(o, c) == \E i \in DOMAIN o.log : o.log[i].call = c

\* C1: every shop value returned by getShops, getShop, createShop or
\* updateShop, and so every shop of a response body, has no mongoUri field.
C1_NoConnectionString ==
    \A v \in last.returned \cup last.body : "mongoUri" \notin DOMAIN v

C1_Witness ==
    /\ last.op = "PUT /api/shops/:id"
    /\ last.status = 200
    /\ \E v \in last.body : v.status = "inactive" /\ v.updatedAt > v.createdAt

\* C2: a category or product route called for an existing shop invokes its
\* tenant operation with the connection string stored in that shop's record.
C2_TenantOperationGetsStoredUri ==
    (last.op \in TenantRouteOps /\ last.auth /\ BodyPassed(last)
       /\ last.id \in ShopIds(shops))
    => \E s \in shops :
          /\ IdToString(s._id) = last.id
          /\ \E i \in DOMAIN last.log :
                last.log[i].call \in TenantCalls /\ last.log[i].uri = s.mongoUri

\* C3: POST /api/shops with a valid body whose connection string fails the
\* probe answers 400, leaves the shops collection as it was and does not
\* call createShop.
C3_UnreachableShopNotCreated ==
    [][(last'.op = "POST /api/shops" /\ last'.auth /\ BodyPassed(last')
          /\ ProbeFails(last'))
       => (/\ last'.status = 400
           /\ ~last'.threw
           /\ shops' = shops
           /\ ~Made(last', "createShop"))]_vars

C3_Witness ==
    /\ last.op = "POST /api/shops"
    /\ last.status = 400
    /\ ~last.threw
    /\ last.uri \in TenantUris
    /\ last.net = "connect_fail"
    /\ shops # {}

\* C4: POST /api/shops with a valid body whose connection string passes the
\* probe answers 201 with the new shop, stored and without mongoUri; every
\* GET /api/shops lists exactly the stored shops, without mongoUri; a stored
\* shop leaves the collection only by a DELETE of its identifier.
C4_CreatedShopListed ==
    /\ [](last.op = "GET /api/shops" /\ last.auth
            => /\ last.status = 200
               /\ {v._id : v \in last.body} = ShopIds(shops)
               /\ \A v \in last.body : "mongoUri" \notin DOMAIN v)
    /\ [][/\ (last'.op = "POST /api/shops" /\ last'.auth /\ BodyPassed(last')
                /\ ~ProbeFails(last') /\ last = Idle)
             => /\ last'.status = 201
                /\ Cardinality(last'.body) = 1
                /\ \A v \in last'.body :
                      /\ "mongoUri" \notin DOMAIN v
                      /\ v._id \in ShopIds(shops') \ ShopIds(shops)
          /\ \A s \in shops :
                IdToString(s._id) \notin ShopIds(shops')
                => last'.op = "DELETE /api/shops/:id" /\ last'.id = IdToString(s._id)
         ]_vars

C4_Witness ==
    /\ last.op = "GET /api/shops"
    /\ last.status = 200
    /\ Cardinality(last.body) = 2

\* C5: PUT /api/shops/:id whose body carries a connection string that fails
\* the probe answers 400, changes no shop record and does not call
\* updateShop.
C5_UnreachableUpdateRefused ==
    [][(last'.op = "PUT /api/shops/:id" /\ last'.auth /\ BodyPassed(last')
          /\ last'.uri # Undefined /\ ProbeFails(last'))
       => (/\ last'.status = 400
           /\ ~last'.threw
           /\ shops' = shops
           /\ ~Made(last', "updateShop"))]_vars

C5_Witness ==
    /\ last.op = "PUT /api/shops/:id"
    /\ last.status = 400
    /\ ~last.threw
    /\ last.id \in ShopIds(shops)
    /\ last.uri \in TenantUris
    /\ last.net = "cmd_fail"

\* C6: every stored connection string is one a probe succeeded for in the
\* request that stored it: a shop is inserted, or its connection string
\* replaced, only by a request that first called testShopConnection for that
\* string with success; an update without a connection string probes nothing.
C6_StoredUriWasProbed ==
    /\ [](\A s \in shops : s.mongoUri \in TenantUris)
    /\ [][/\ \A s \in shops' :
                (\A o \in shops : o._id = s._id => o.mongoUri # s.mongoUri)
                => /\ last'.uri = s.mongoUri
                   /\ ~ProbeFails(last')
                   /\ \E i, j \in DOMAIN last'.log :
                         /\ i < j
                         /\ last'.log[i] = Call("testShopConnection", s.mongoUri, TRUE)
                         /\ last'.log[j].call \in {"createShop", "updateShop"}
          /\ (last'.op = "PUT /api/shops/:id" /\ last'.uri = Undefined)
                => ~Made(last', "testShopConnection")
         ]_vars

C6_Witness ==
    /\ last.op = "PUT /api/shops/:id"
    /\ last.status = 200
    /\ last.uri = "mongodb://t2/db"
    /\ \E s \in shops :
          /\ IdToString(s._id) = last.id
          /\ s.mongoUri = last.uri
          /\ s.updatedAt > s.createdAt

\* C7: a request without an authenticated session is answered 401 and its
\* handler does not run: nothing is validated, probed or called, and the
\* shared and tenant databases are unchanged.
C7_UnauthenticatedDoesNothing ==
    [][(last'.op \in RouteOps /\ ~last'.auth)
       => (/\ last'.status = 401
           /\ last'.log = << >>
           /\ last'.body = {} /\ last'.returned = {} /\ last'.docs = {}
           /\ shops' = shops
           /\ tenants' = tenants
           /\ nextId' = nextId)]_vars

C7_Witness ==
    /\ last.op = "POST /api/shops"
    /\ ~last.auth
    /\ last.status = 401
    /\ last.uri \in TenantUris
    /\ last.net = "ok"
    /\ nextId <= MaxIds

\* C8: a category or product route whose shop identifier resolves to no shop
\* answers 404 and opens no tenant connection and invokes no tenant operation.
C8_UnknownShopIs404 ==
    (last.op \in TenantRouteOps /\ last.auth /\ last.id \notin ShopIds(shops))
    => /\ last.status = 404
       /\ \A i \in DOMAIN last.log :
             last.log[i].call \notin TenantCalls \cup {"connect"}

SharedPointCalls == {"getShop", "getShopInternal", "updateShop", "deleteShop"}

CategoryPointCalls == {"getShopCategory", "updateShopCategory", "deleteShopCategory"}

ProductPointCalls == {"getShopProduct", "updateShopProduct", "deleteShopProduct"}

PointCalls ==
    {"getUser"} \cup SharedPointCalls \cup CategoryPointCalls \cup ProductPointCalls

\* The identifier strings of the records of a collection.
IdsOf(coll) == {IdToString(d._id) : d \in coll}

\* The number of calls named c that request o made.
Count(o, c) == Cardinality({i \in DOMAIN o.log : o.log[i].call = c})

\* The routes that create or update a record from a request body.
CreateUpdateOps ==
    {"POST /api/shops", "PUT /api/shops/:id",
     "POST /api/shops/:shopId/categories",
     "PUT /api/shops/:shopId/categories/:categoryId",
     "POST /api/shops/:shopId/products",
     "PUT /api/shops/:shopId/products/:productId"}

\* The products held by the tenant databases of the shops of S that the
\* network outcome netOf lets through.
RECURSIVE ReachableProducts(_, _)
ReachableProducts(S, netOf) ==
    IF S = {} THEN 0
    ELSE LET s == CHOOSE x \in S : TRUE
         IN  (IF netOf[s._id] = "ok"
              THEN Cardinality(tenants[s.mongoUri].products) ELSE 0)
             + ReachableProducts(S \ {s}, netOf)

\* C11: a createUser whose email is that of a stored user fails at its insert
\* and leaves the users collection as it was, in every state, the states
\* before initialize has created the unique index included.
C11_DuplicateEmailRefused ==
    [][\A c \in Callers :
          (/\ pending[c].stage = "idle"
           /\ pending'[c].stage # "idle"
           /\ \E u \in users : u.email = pending'[c].data.email)
          => (pending'[c].stage = "failed" /\ users' = users)]_vars

\* C12: a createUser whose username is that of a stored user, with an email
\* no stored user has, fails at its insert and inserts nothing.
C12_DuplicateUsernameRefused ==
    [][\A c \in Callers :
          (/\ pending[c].stage = "idle"
           /\ pending'[c].stage # "idle"
           /\ \E u \in users : u.username = pending'[c].data.username
           /\ \A u \in users : u.email # pending'[c].data.email)
          => (pending'[c].stage = "failed" /\ Cardinality(users') = Cardinality(users))]_vars

\* C13: a tenant operation closes every connection it opened, however it
\* ends: it has made as many close calls as connect calls.
C13_TenantConnectionClosed ==
    last.op \in TenantCalls => Count(last, "close") = Count(last, "connect")

\* C14: testShopConnection never raises and returns true exactly when the
\* client is constructed, connects and answers the ping; POST
\* /api/test-connection with a session answers 200 with that boolean.
C14_ProbeNeverRaises ==
    /\ last.op = "testShopConnection"
          => /\ ~last.threw
             /\ last.flag = (last.uri \in TenantUris /\ last.net = "ok")
    /\ (last.op = "POST /api/test-connection" /\ last.auth)
          => /\ ~last.threw
             /\ last.status = 200
             /\ last.flag = (last.uri \in TenantUris /\ last.net = "ok")

C14_Witness ==
    /\ last.op = "POST /api/test-connection"
    /\ last.auth
    /\ last.uri = Undefined
    /\ last.status = 200
    /\ ~last.flag

\* C15: testShopConnection has closed every connection it opened when it
\* returns, whether the probe succeeded or failed.
C15_ProbeConnectionClosed ==
    last.op = "testShopConnection" => Count(last, "close") = Count(last, "connect")

\* C16: GET /api/stats with a session answers 200 whatever the network does:
\* every active shop is queried, a query that fails is caught and adds
\* nothing to the product total.
C16_StatsSurvivesFailures ==
    (last.op = "GET /api/stats" /\ last.auth)
    => /\ last.status = 200
       /\ ~last.threw
       /\ Count(last, "getShopProducts") = Cardinality({s \in shops : s.status = "active"})
       /\ (\A i \in DOMAIN last.log :
              last.log[i].call = "getShopProducts" => ~last.log[i].ok)
             => last.stats.totalProducts = 0

C16_Witness ==
    /\ last.op = "GET /api/stats"
    /\ last.status = 200
    /\ Count(last, "getShopProducts") = 2
    /\ \E i \in DOMAIN last.log :
          last.log[i].call = "getShopProducts" /\ ~last.log[i].ok

\* C17: the statistics response counts the shop records, the active shop
\* records, and the products of the reachable tenant databases of the
\* active shops.
C17_StatsCounts ==
    (last.op = "GET /api/stats" /\ last.auth)
    => /\ last.stats.totalShops = Cardinality(shops)
       /\ last.stats.activeConnections = Cardinality({s \in shops : s.status = "active"})
       /\ last.stats.totalProducts =
             ReachableProducts({s \in shops : s.status = "active"}, last.net)

\* C18: a read, update or delete by an identifier that matches no record
\* does not raise, returns undefined or false, and changes no stored data,
\* whatever the identifier string is.
C18_NoMatchIsQuiet ==
    [][(/\ last'.op \in PointCalls
        /\ last'.op \notin SharedPointCalls \cup {"getUser"}
              => last'.uri \in TenantUris /\ last'.net = "ok"
        /\ last'.id \notin
              IdsOf(IF last'.op = "getUser" THEN users
                    ELSE IF last'.op \in SharedPointCalls THEN shops
                    ELSE IF last'.op \in CategoryPointCalls
                    THEN tenants[last'.uri].categories
                    ELSE tenants[last'.uri].products))
       => (/\ ~last'.threw
           /\ last'.returned = {} /\ last'.docs = {} /\ ~last'.flag
           /\ shops' = shops /\ tenants' = tenants /\ users' = users)]_vars

\* C19: a create or update route validates the body before it calls the
\* data-access layer: with a body that fails its schema the only thing the
\* handler does is the failed validation, the answer is 400 and nothing is
\* written (for every identifier of the path that is well formed).
C19_ValidatedFirst ==
    [][(last'.op \in CreateUpdateOps /\ last'.auth /\ ~last'.valid
          /\ last'.id # MalformedId)
       => (/\ last'.status = 400
           /\ last'.log = <<Call("parse", NoUri, FALSE)>>
           /\ shops' = shops /\ tenants' = tenants)]_vars

\* C20: POST /api/shops/:shopId/products with a valid body, for an existing
\* shop whose reachable tenant database holds no category, answers 201 with
\* the product, which that tenant database then holds.
C20_ProductWithoutCategory ==
    (/\ last.op = "POST /api/shops/:shopId/products"
     /\ last.auth /\ last.valid /\ last.net = "ok")
    => \A s \in shops :
          (IdToString(s._id) = last.id /\ tenants[s.mongoUri].categories = {})
          => /\ last.status = 201
             /\ last.docs # {}
             /\ last.docs \subseteq {WithStringId(p) : p \in tenants[s.mongoUri].products}

\* The tenant operations that only read.
ReadCalls ==
    {"getShopCategories", "getShopCategory", "getShopProducts", "getShopProduct"}

\* The methods that delete one record.
DeleteCalls == {"deleteShop", "deleteShopCategory", "deleteShopProduct"}

\* The collection a delete method works on, among the shops sh and the
\* tenant databases tn.
CollectionOf(op, uri, sh, tn) ==
    IF op = "deleteShop" THEN sh
    ELSE IF op = "deleteShopCategory" THEN tn[uri].categories
    ELSE tn[uri].products

\* The driver commands of request o: its calls other than the method itself,
\* connect and close.
Commands(o) ==
    {i \in DOMAIN o.log : o.log[i].call \notin TenantCalls \cup {"connect", "close"}}

\* C21: a tenant operation called with one connection string leaves the
\* tenant databases of every other connection string, the shops and the
\* users as they were, writes nothing at all when it is a read, and returns
\* only records of its own tenant database.
C21_TenantIsolation ==
    [][(last = Idle /\ last'.op \in TenantCalls)
       => (/\ \A u \in TenantUris \ {last'.uri} : tenants'[u] = tenants[u]
           /\ last'.op \in ReadCalls => tenants' = tenants
           /\ shops' = shops
           /\ users' = users
           /\ last'.docs \subseteq
                 (IF last'.uri \in TenantUris
                  THEN {WithStringId(d) : d \in tenants'[last'.uri].categories
                                                \cup tenants'[last'.uri].products}
                  ELSE {}))]_vars

C21_Witness ==
    /\ last.op = "updateShopProduct"
    /\ last.uri = "mongodb://t1/db"
    /\ last.docs # {}
    /\ tenants["mongodb://t2/db"].products # {}
    /\ shops # {}

\* C22: updateShop on an existing shop sets the supplied fields and
\* updatedAt and nothing else; on an identifier that matches no shop it
\* returns undefined and leaves the collection as it was.
C22_UpdateShopSetsSuppliedFields ==
    [][(last = Idle /\ last'.op = "updateShop")
       => LET hit == {s \in shops : IdToString(s._id) = last'.id}
              data == last'.data
          IN  /\ ~last'.threw
              /\ hit = {} => (last'.returned = {} /\ shops' = shops)
              /\ \A s \in hit :
                    \E t \in shops' :
                       /\ t._id = s._id
                       /\ DOMAIN t = DOMAIN s
                       /\ \A f \in DOMAIN data : t[f] = data[f]
                       /\ t.updatedAt = now
                       /\ \A f \in DOMAIN s \ (DOMAIN data \cup {"updatedAt"}) :
                             t[f] = s[f]
                       /\ shops' \ {t} = shops \ {s}]_vars

\* C26: a tenant operation that returns has issued exactly one driver
\* command on its collection between connect and close.
C26_OneOperationPerCall ==
    (last.op \in TenantCalls /\ ~last.threw) => Cardinality(Commands(last)) = 1

\* C30: a delete method removes at most one record, the one of its
\* identifier, and returns true exactly when it removed one; on an
\* identifier that is no longer stored it returns false and changes nothing,
\* and DELETE /api/shops/:id answers 404.
C30_DeleteRemovesAtMostOne ==
    [][/\ (last = Idle /\ last'.op \in DeleteCalls /\ ~last'.threw)
          => LET before == CollectionOf(last'.op, last'.uri, shops, tenants)
                 after == CollectionOf(last'.op, last'.uri, shops', tenants')
             IN  /\ after \subseteq before
                 /\ Cardinality(before \ after) <= 1
                 /\ \A d \in before \ after : IdToString(d._id) = last'.id
                 /\ last'.flag = (Cardinality(before \ after) = 1)
                 /\ last'.id \notin IdsOf(before) => (~last'.flag /\ after = before)
       /\ (/\ last = Idle
           /\ last'.op = "DELETE /api/shops/:id" /\ last'.auth
           /\ last'.id.hex /\ last'.id \notin IdsOf(shops))
          => (last'.status = 404 /\ shops' = shops)]_vars

C30_Witness ==
    /\ last.op = "deleteShopProduct"
    /\ ~last.threw
    /\ ~last.flag
    /\ last.uri = "mongodb://t1/db"
    /\ last.id = IdToString(SeedId(1))
    /\ last.id \notin IdsOf(tenants[last.uri].products)

\* The number of tenant connections request o holds open after its first k
\* calls.
OpenAfter(o, k) ==
    Cardinality({i \in 1..k : o.log[i].call = "connect"})
    - Cardinality({i \in 1..k : o.log[i].call = "close"})

\* C23: a value that carries a connection string comes from getShopInternal
\* only; a route that invokes a tenant operation has obtained the connection
\* string from getShopInternal; no response body carries a connection string.
C23_InternalLookupOnlyForRouting ==
    /\ \A v \in last.returned :
          "mongoUri" \in DOMAIN v => Made(last, "getShopInternal")
    /\ (last.op \in TenantRouteOps /\ \E c \in TenantCalls : Made(last, c))
          => Made(last, "getShopInternal")
    /\ \A v \in last.body \cup last.docs : "mongoUri" \notin DOMAIN v

C27_CreatedActive ==
    [][/\ \A s \in shops' :
             s._id \notin {o._id : o \in shops}
             => (last'.op = "POST /api/shops" /\ s.status = "active")
       /\ \A s \in shops' : \A o \in shops :
             (o._id = s._id /\ o.status # s.status)
             => last'.op = "PUT /api/shops/:id"]_vars

C27_Witness ==
    /\ last.op = "POST /api/shops"
    /\ last.status = 201
    /\ last.data = [status |-> "inactive"]
    /\ \E s \in shops : IdToString(s._id) \in {v._id : v \in last.body}
                          /\ s.status = "active"

\* C29: every stored shop has a status among active, pending and inactive
\* and a non-empty name, location and connection string.
C29_StoredShopsWellFormed ==
    \A s \in shops :
       /\ s.status \in Statuses
       /\ \A f \in {"name", "location", "mongoUri"} : s[f] \notin {"", Undefined}

C29_Witness ==
    /\ last.op = "PUT /api/shops/:id"
    /\ last.status = 200
    /\ \E s \in shops :
          /\ IdToString(s._id) = last.id
          /\ s.status = "pending"
          /\ s.updatedAt > s.createdAt

\* Caller c's handler goes on from its shop lookup in this step.
Resumes(c) == pending[c].stage = "resolved" /\ pending'[c].stage = "idle"

\* C24: an update request for a stored product of a stored shop, with a
\* valid body, is applied once and as a whole to the product as it is stored
\* when the update runs: the stored product afterwards is the one before
\* with the fields of the body and updatedAt set, so that of two overlapping
\* updates the later one wins on the fields both set and neither loses the
\* fields only it sets.
C24_UpdatesAppliedInOrder ==
    [][\A c \in Callers :
         Resumes(c) =>
           LET q == pending[c].data.request
               patch == PartialParse(ProductFields, q.body)
           IN  (/\ q.op = "PUT /api/shops/:shopId/products/:productId"
                /\ WriteValid(q))
               => \A s \in shops : \A p \in tenants[s.mongoUri].products :
                    (IdToString(s._id) = q.shopId /\ IdToString(p._id) = q.docId)
                    => /\ last'.status = 200
                       /\ tenants'[s.mongoUri].products
                            = (tenants[s.mongoUri].products \ {p})
                              \cup {SetFields(p, patch @@ [updatedAt |-> now])}]_vars

====
